---- MODULE Spec2Model ----
(***************************************************************************)
(* A model of fifth, a cellular automata machine.                          *)
(*                                                                         *)
(* Two generations of the library live side by side in the repository:     *)
(*   - the numpy generation: cam.py (CAM), ruleset.py (Configuration,      *)
(*     Ruleset), camtools.py, util.py;                                     *)
(*   - the bitarray generation: plane.py (Plane), configuration.py         *)
(*     (Neighborhood, Configuration), neighborhood.py, cam_parser.py.      *)
(* Spec is the CAM of cam.py driven by a Ruleset of ruleset.py.            *)
(* PlaneSpec is a Plane of plane.py with the Neighborhood / Configuration  *)
(* operations of configuration.py and the index helpers of camtools.py.    *)
(*                                                                         *)
(* Flat grids are sequences: flat index i of the code is position i + 1.   *)
(* A call that raises is modelled by a result record with ok = FALSE and   *)
(* the exception's type in exc.                                            *)
(***************************************************************************)
EXTENDS Integers, Sequences, FiniteSets, TLC

VARIABLES master, ruleset, plane, last

vars == <<master, ruleset, plane, last>>

\* ------------------------------------------------------------------ bounds
MaxSide == 3
MaxN == 3
MaxCells == 4
MaxConfigs == 2

\* ----------------------------------------------------------------- helpers
RECURSIVE Prod(_)
Prod(s) == IF s = <<>> THEN 1 ELSE Head(s) * Prod(Tail(s))

RECURSIVE SumSeq(_)
SumSeq(s) == IF s = <<>> THEN 0 ELSE Head(s) + SumSeq(Tail(s))

Suffix(s, i) == [k \in 1..(Len(s) - i) |-> s[i + k]]

Zeros(n) == [k \in 1..n |-> 0]

Ok(v) == [ok |-> TRUE, val |-> v]
Raise(e) == [ok |-> FALSE, exc |-> e]

Dims == 1..MaxN
Sides == 1..MaxSide

RECURSIVE Tuples(_, _)
Tuples(S, n) == IF n = 0 THEN {<<>>}
                ELSE {<<x>> \o t : x \in S, t \in Tuples(S, n - 1)}

Shapes == {s \in UNION {Tuples(Sides, n) : n \in Dims} : Prod(s) <= MaxCells}

Grids(n) == [1..n -> {0, 1}]

\* unit offsets along the first and the last axis
UnitVec(n, axis, v) == [k \in 1..n |-> IF k = axis THEN v ELSE 0]
North(n) == UnitVec(n, 1, -1)
East(n) == UnitVec(n, n, 1)

NoCall == [op |-> "none"]

\* ------------------------------------------------------ ruleset.py, cam.py
ON == 1
OFF == 0

Methods == {"MATCH", "TOLERATE", "SATISFY", "ALWAYS_PASS"}

Tolerances == {[num |-> 0, den |-> 1], [num |-> 1, den |-> 2], [num |-> 1, den |-> 1]}
\* a Python function object is [fn |-> name], a constant state is [const |-> v]
Fn(name) == [fn |-> name]
Const(v) == [const |-> v]
ValidFuncs == {Fn("always_true"), Fn("focus_on")}
NextStates == {Const(OFF), Const(ON), Fn("replicator")}

IsCallable(x) == "fn" \in DOMAIN x

\* flatten(coordinates, grid): no modulo, negative components allowed
RECURSIVE RsFlattenLoop(_, _, _, _, _)
RsFlattenLoop(coordinates, shape, i, index, gridprod) ==
    IF i = 0 THEN Ok(index)
    ELSE IF i > Len(shape) THEN Raise("IndexError")
    ELSE RsFlattenLoop(coordinates, shape, i - 1,
                       index + coordinates[i] * gridprod, gridprod * shape[i])

RsFlatten(coordinates, grid) ==
    RsFlattenLoop(coordinates, grid.shape, Len(coordinates), 0, 1)

\* Configuration(grid, next_state, offsets); offsets is a dict, here the
\* sequence of its (key, value) pairs
NewConfiguration(grid, next_state, offsets) ==
    [next_state |-> next_state,
     states     |-> [k \in 1..Len(offsets) |-> offsets[k][2]],
     offsets    |-> [k \in 1..Len(offsets) |-> RsFlatten(offsets[k][1], grid).val]]

\* indices = (f_index + self.offsets) % grid.size
Indices(config, f_index, grid) ==
    [k \in 1..Len(config.offsets) |-> (f_index + config.offsets[k]) % Len(grid.flat)]

CountNonMatches(f_grid, indices, states) ==
    Cardinality({k \in 1..Len(indices) : f_grid[indices[k] + 1] # states[k]})

\* total = sum(f_grid[indices])
Total(f_grid, indices) == SumSeq([k \in 1..Len(indices) |-> f_grid[indices[k] + 1]])

\* game_of_life of examples/life.py
GameOfLifeNoDeath(f_index, f_grid, indices) ==
    LET total == Total(f_grid, indices)
    IN  IF f_grid[f_index + 1] # 0 THEN ON
        ELSE IF total = 3 THEN ON
        ELSE OFF
GameOfLife(f_index, f_grid, indices) ==
    LET total == Total(f_grid, indices)
    IN  IF f_grid[f_index + 1] # 0
        THEN IF total < 2 \/ total > 3 THEN OFF ELSE ON
        ELSE IF total = 3 THEN ON
        ELSE OFF

\* seeds of examples/seeds.py
SeedsBornAlone(f_index, f_grid, indices) ==
    LET total == Total(f_grid, indices)
    IN  IF f_grid[f_index + 1] = 0 /\ total \in {0, 2} THEN ON ELSE OFF
Seeds(f_index, f_grid, indices) ==
    LET total == Total(f_grid, indices)
    IN  IF f_grid[f_index + 1] = 0 /\ total = 2 THEN ON ELSE OFF

\* the function CAMParser._mcell(x, y) returns, x and y the lists of digits
Mcell(x, y) == [fn |-> "next_state", x |-> x, y |-> y]

\* next_state of CAMParser._mcell: int(total in x) or int(total in y)
Mcell_next_state(f, f_index, f_grid, indices) ==
    LET total == Total(f_grid, indices)
    IN  IF f_grid[f_index + 1] # 0
        THEN IF \E k \in 1..Len(f.x) : f.x[k] = total THEN 1 ELSE 0
        ELSE IF \E k \in 1..Len(f.y) : f.y[k] = total THEN 1 ELSE 0

\* user functions handed to the ruleset (examples/replicator.py, examples/life.py:41)
CallUser(f, f_index, f_grid, indices, states) ==
    CASE ~IsCallable(f)       -> Raise("TypeError")
      [] f.fn = "always_true" -> Ok(TRUE)
      [] f.fn = "focus_on"    -> Ok(f_grid[f_index + 1] = 1)
      [] f.fn = "game_of_life" -> Ok(GameOfLife(f_index, f_grid, indices))
      [] f.fn = "seeds"       -> Ok(Seeds(f_index, f_grid, indices))
      [] f.fn = "next_state"  -> Ok(Mcell_next_state(f, f_index, f_grid, indices))
      [] f.fn = "replicator"  ->
            Ok(IF SumSeq([k \in 1..Len(indices) |-> f_grid[indices[k] + 1]]) % 2 = 1
               THEN ON ELSE OFF)

Rs_matches(f_index, f_grid, indices, states, args) ==
    IF Len(args) # 0 THEN Raise("TypeError")
    ELSE Ok(CountNonMatches(f_grid, indices, states) = 0)

\* f_grid[inices]: the name is not defined
Rs_tolerates(f_index, f_grid, indices, states, args) ==
    IF Len(args) # 1 THEN Raise("TypeError")
    ELSE Raise("NameError")

\* _satisfies with the predicate defaulted to one that always holds
Rs_satisfiesDefault(f_index, f_grid, indices, states, args) ==
    IF Len(args) # 1 THEN Ok(TRUE)
    ELSE CallUser(args[1], f_index, f_grid, indices, states)
Rs_satisfies(f_index, f_grid, indices, states, args) ==
    IF Len(args) # 1 THEN Raise("TypeError")
    ELSE CallUser(args[1], f_index, f_grid, indices, states)

Vfunc(method, f_index, f_grid, indices, states, args) ==
    CASE method = "MATCH"    -> Rs_matches(f_index, f_grid, indices, states, args)
      [] method = "TOLERATE" -> Rs_tolerates(f_index, f_grid, indices, states, args)
      [] method = "SATISFY"  -> Rs_satisfies(f_index, f_grid, indices, states, args)

\* Configuration.passes(f_index, grid, vfunc, *args) -> (success, state)
Rs_passes(config, f_index, grid, method, args) ==
    LET indices == Indices(config, f_index, grid)
        success == Vfunc(method, f_index, grid.flat, indices, config.states, args)
    IN  IF ~success.ok THEN success
        ELSE IF IsCallable(config.next_state)
        THEN LET st == CallUser(config.next_state, f_index, grid.flat, indices, config.states)
             IN  IF st.ok THEN Ok(<<success.val, st.val>>) ELSE st
        ELSE Ok(<<success.val, config.next_state.const>>)

\* the value applyTo returns when its loop ends without a passing configuration
FallThroughBlank(grid, f_index) == OFF
FallThrough(grid, f_index) == grid.flat[f_index + 1]

\* the configuration loop of applyTo picks the first passing configuration
RECURSIVE ApplyLoop(_, _, _, _, _, _)
ApplyLoop(configs, k, method, f_index, grid, args) ==
    IF k > Len(configs) THEN Ok(FallThrough(grid, f_index))
    ELSE IF method \notin {"MATCH", "TOLERATE", "SATISFY"}
    THEN Ok(FallThrough(grid, f_index))
    ELSE LET r == Rs_passes(configs[k], f_index, grid, method, args)
         IN  IF ~r.ok THEN r
             ELSE IF r.val[1] THEN Ok(r.val[2])
             ELSE ApplyLoop(configs, k + 1, method, f_index, grid, args)

\* Ruleset.applyTo(f_index, grid, *args)
ApplyToLastWins(rules, f_index, grid, args) ==
    ApplyLoop([k \in 1..Len(rules.configurations) |->
                  rules.configurations[Len(rules.configurations) + 1 - k]],
              1, rules.method, f_index, grid, args)
ApplyTo(rules, f_index, grid, args) ==
    ApplyLoop(rules.configurations, 1, rules.method, f_index, grid, args)

\* the loop of CAM.tick: tmp.flat[i] = rules.applyTo(i, self.master, *args)
RECURSIVE TickLoopInPlace(_, _, _, _, _)
TickLoopInPlace(rules, m, tmp, i, args) ==
    IF i >= Len(m.flat) THEN Ok(tmp)
    ELSE LET r == ApplyTo(rules, i, tmp, args)
         IN  IF ~r.ok THEN r
             ELSE TickLoopInPlace(rules, m, [tmp EXCEPT !.flat[i + 1] = r.val], i + 1, args)
RECURSIVE TickLoop(_, _, _, _, _)
TickLoop(rules, m, tmp, i, args) ==
    IF i >= Len(m.flat) THEN Ok(tmp)
    ELSE LET r == ApplyTo(rules, i, m, args)
         IN  IF ~r.ok THEN r
             ELSE TickLoop(rules, m, [tmp EXCEPT !.flat[i + 1] = r.val], i + 1, args)

\* CAM.tick: tmp = np.copy(self.master); the loop; self.master[:] = tmp
TickResult(rules, m, args) == TickLoop(rules, m, m, 0, args)

TickArgs == {<<>>} \cup {<<t>> : t \in Tolerances} \cup {<<f>> : f \in ValidFuncs}

\* offsets dictionaries handed to addConfiguration
OffsetDicts(shape) == {<<>>, << <<East(Len(shape)), ON>> >>}

CamShapes == {s \in Shapes : \A k \in 1..Len(s) : s[k] = s[1]}

\* ---------------------------------------------------------------- plane.py
\* Plane.__init__: the strides, self.offsets, are filled from the last axis
RECURSIVE StridesLoop(_, _, _, _)
StridesLoop(shape, i, prod, acc) ==
    IF i = 0 THEN acc
    ELSE StridesLoop(shape, i - 1, prod * shape[i], <<prod>> \o acc)

StridesColumnMajor(shape) ==
    [k \in 1..Len(shape) |-> Prod(SubSeq(shape, 1, k - 1))]

Strides(shape) == StridesLoop(shape, Len(shape), 1, <<>>)

\* Plane(shape, bits)
PlaneOf(shape, bits) ==
    [shape |-> shape, N |-> Len(shape), offsets |-> Strides(shape),
     bits |-> bits, dirty |-> FALSE]

\* Plane(shape)
NewPlane(shape) == PlaneOf(shape, Zeros(Prod(shape)))

NoPlane == PlaneOf(<<>>, <<>>)

Min(a, b) == IF a < b THEN a ELSE b

\* sum([x*y for (x,y) in zip(index, self.offsets)])
ZipDot(index, offsets) ==
    SumSeq([k \in 1..Min(Len(index), Len(offsets)) |-> index[k] * offsets[k]])

\* Plane.flatten(coordinates)
Plane_flatten(p, coordinates) ==
    IF Len(coordinates) # p.N THEN Raise("ValueError")
    ELSE Ok(ZipDot(coordinates, p.offsets) % Len(p.bits))

\* Plane.__getitem__(index), index a tuple
Plane_getitem(p, index) ==
    LET offset == ZipDot(index, p.offsets) % Len(p.bits)
    IN  IF Len(index) = p.N THEN Ok(p.bits[offset + 1])
        ELSE IF Len(index) < p.N THEN Raise("NameError")
        ELSE Raise("IndexError")

\* Plane.__getitem__(index), index a number
Plane_getitem_int(p, index) ==
    IF p.N = 1
    THEN IF index >= Len(p.bits) \/ index < -Len(p.bits) THEN Raise("IndexError")
         ELSE Ok(p.bits[(index % Len(p.bits)) + 1])
    ELSE LET delta  == p.offsets[1]
             offset == (index * delta) % Len(p.bits)
         IN  Ok(PlaneOf(Suffix(p.shape, 1), [k \in 1..delta |-> p.bits[offset + k]]))

\* Plane.__setitem__(index, value), index a tuple of all N components
Plane_setitem(p, index, value) ==
    LET offset == ZipDot(index, p.offsets) % Len(p.bits)
    IN  [p EXCEPT !.bits[offset + 1] = value]

\* -------------------------------------------------------------- camtools.py
\* np.prod(grid.shape[i+1:]), i counted from 0
ShapeProdAfter(shape, i) == Prod(Suffix(shape, Min(i + 1, Len(shape))))

\* flatten(coordinates, grid)
Ct_flatten(coordinates, grid) ==
    SumSeq([k \in 1..Len(coordinates) |-> coordinates[k] * ShapeProdAfter(grid.shape, k - 1)])

RECURSIVE Ct_unflattenLoop(_, _, _, _)
Ct_unflattenLoop(index, shape, i, coordinates) ==
    IF i >= Len(shape) THEN coordinates
    ELSE LET tmp == ShapeProdAfter(shape, i)
             c   == index \div tmp
         IN  Ct_unflattenLoop(index - tmp * c, shape, i + 1, Append(coordinates, c))

\* unflatten(index, grid)
Ct_unflattenColumnMajor(index, grid) ==
    [k \in 1..Len(grid.shape) |->
        (index \div Prod([j \in 1..(k - 1) |-> grid.shape[j]])) % grid.shape[k]]
Ct_unflatten(index, grid) == Ct_unflattenLoop(index, grid.shape, 0, <<>>)

\* comp_add(coor1, coor2)
Comp_add(coor1, coor2) ==
    [k \in 1..Min(Len(coor1), Len(coor2)) |-> coor1[k] + coor2[k]]


\* --------------------------------------------------------- configuration.py
\* Neighborhood(index)
NewNeighborhood(index) == [total |-> 0, index |-> index, neighbors |-> <<>>]

\* Neighborhood.populate(plane, offsets): the neighbors, or the first error of
\* plane.flatten
RECURSIVE PopulateLoop(_, _, _, _, _)
PopulateLoop(nb, p, offsets, k, neighbors) ==
    IF k > Len(offsets) THEN Ok([nb EXCEPT !.neighbors = neighbors, !.total = Len(neighbors)])
    ELSE LET f == Plane_flatten(p, offsets[k])
         IN  IF ~f.ok THEN f
             ELSE PopulateLoop(nb, p, offsets, k + 1,
                      Append(neighbors, p.bits[((f.val + nb.index) % Len(p.bits)) + 1]))

Neighborhood_populate(nb, p, offsets) == PopulateLoop(nb, p, offsets, 1, <<>>)

\* Configuration(next_state, plane=plane, offsets=offsets) with extend_offsets;
\* offsets is a dict, here the sequence of its (key, value) pairs
Cfg_new(next_state, p, offsets) ==
    [next_state |-> next_state,
     offsets    |-> [k \in 1..Len(offsets) |-> offsets[k][1]],
     sequence   |-> [k \in 1..Len(offsets) |-> offsets[k][2]]]

\* (self.sequence ^ neighborhood.neighbors).count()
XorCount(a, b) == Cardinality({k \in 1..Len(a) : a[k] # b[k]})

\* Configuration.matches(plane, neighborhood)
Cfg_matchesAny(config, p, nb) ==
    LET r == Neighborhood_populate(nb, p, config.offsets)
    IN  IF ~r.ok THEN r
        ELSE Ok(XorCount(config.sequence, r.val.neighbors) < Len(config.sequence)
                \/ Len(config.sequence) = 0)
Cfg_matches(config, p, nb) ==
    LET r == Neighborhood_populate(nb, p, config.offsets)
    IN  IF ~r.ok THEN r
        ELSE Ok(XorCount(config.sequence, r.val.neighbors) = 0)

\* Configuration.tolerates(plane, neighborhood, tolerance); the tolerance is the
\* fraction num / den, and a / b >= num / den is a * den >= num * b for b, den > 0
Cfg_toleratesNonMatches(config, p, nb, tolerance) ==
    LET r == Neighborhood_populate(nb, p, config.offsets)
    IN  IF ~r.ok THEN r
        ELSE IF Len(config.sequence) = 0 THEN Raise("ZeroDivisionError")
        ELSE Ok(XorCount(config.sequence, r.val.neighbors) * tolerance.den
                  >= tolerance.num * Len(config.sequence))
Cfg_tolerates(config, p, nb, tolerance) ==
    LET r == Neighborhood_populate(nb, p, config.offsets)
    IN  IF ~r.ok THEN r
        ELSE IF Len(config.sequence) = 0 THEN Raise("ZeroDivisionError")
        ELSE LET non_matches == XorCount(config.sequence, r.val.neighbors)
             IN  Ok((Len(config.sequence) - non_matches) * tolerance.den
                      >= tolerance.num * Len(config.sequence))

\* int(sequence.to01()): the bits read as a decimal numeral
RECURSIVE ToDecimal(_)
ToDecimal(seq) ==
    IF seq = <<>> THEN 0
    ELSE 10 * ToDecimal(SubSeq(seq, 1, Len(seq) - 1)) + seq[Len(seq)]

\* str(n), as the sequence of its decimal digits
RECURSIVE DecDigits(_)
DecDigits(n) == IF n < 10 THEN <<n>> ELSE Append(DecDigits(n \div 10), n % 10)

\* str(n).zfill(width)
Zfill(digits, width) ==
    IF Len(digits) >= width THEN digits ELSE Zeros(width - Len(digits)) \o digits

ChunkSize == 9

\* [neighboring[i:i+9] for i in range(0, len(neighboring), 9)], summed
ChunkSums(neighboring) ==
    [c \in 1..((Len(neighboring) + ChunkSize - 1) \div ChunkSize) |->
        SumSeq(SubSeq(neighboring, (c - 1) * ChunkSize + 1,
                      Min(c * ChunkSize, Len(neighboring))))]

\* bits[sub_index:] + bits[:sub_index]
Rotate(bits, sub_index) ==
    [k \in 1..Len(bits) |-> bits[((k - 1 + sub_index) % Len(bits)) + 1]]

\* the aligned rows of one level, one decimal numeral per offset
RECURSIVE NeighboringLoop(_, _, _, _, _)
NeighboringLoop(p, level, offsets, k, neighboring) ==
    IF k > Len(offsets) THEN Ok(neighboring)
    ELSE LET adj_level == level + offsets[k][1]
             sub_plane == Plane_getitem_int(p, adj_level).val
             sub_index == Plane_flatten(sub_plane, Suffix(offsets[k], 1))
         IN  IF ~sub_index.ok THEN sub_index
             ELSE NeighboringLoop(p, level, offsets, k + 1,
                      Append(neighboring, ToDecimal(Rotate(sub_plane.bits, sub_index.val))))

\* the totals of one level; after the first chunk totals is a map object, which
\* has no len()
LevelTotals(p, neighboring) ==
    LET totals == Zeros(p.offsets[1])
        chunks == ChunkSums(neighboring)
    IN  IF Len(chunks) = 0 THEN Ok(totals)
        ELSE IF Len(chunks) > 1 THEN Raise("TypeError")
        ELSE LET padded_chunk == Zfill(DecDigits(chunks[1]), Len(totals))
             IN  Ok([k \in 1..Min(Len(totals), Len(padded_chunk)) |->
                        totals[k] + padded_chunk[k]])

RECURSIVE TotalsLoop(_, _, _, _)
TotalsLoop(p, offsets, level, n_counts) ==
    IF level >= p.shape[1] THEN Ok(n_counts)
    ELSE LET nb == NeighboringLoop(p, level, offsets, 1, <<>>)
         IN  IF ~nb.ok THEN nb
             ELSE LET t == LevelTotals(p, nb.val)
                  IN  IF ~t.ok THEN t
                      ELSE TotalsLoop(p, offsets, level + 1, n_counts \o t.val)

\* Neighborhood.get_totals(plane, offsets), offsets a list of N-tuples
Neighborhood_get_totals(p, offsets) ==
    IF p.N = 1
    THEN IF Len(offsets) > 0 THEN Raise("TypeError")
         ELSE Ok(Zeros(Len(p.bits)))
    ELSE TotalsLoop(p, offsets, 0, <<>>)

\* ---------------------------------------------------------- neighborhood.py
\* Neighborhood.get_neighborhoods(plane, offsets) of neighborhood.py. Every
\* neighborhood reads plane.bits[j] for j in range(len(f_offsets)) and then
\* executes plane.bits[j] += 1. Storing 2 in a bitarray either stores a set bit
\* (build "coerce") or raises ValueError (build "strict").
Builds == {"coerce", "strict"}

GnResult(ok, exc, bits, val) == [ok |-> ok, exc |-> exc, bits |-> bits, val |-> val]

RECURSIVE GnLoop(_, _, _, _, _, _, _)
GnLoop(bits, nOffsets, i, j, done, neighbors, build) ==
    IF i >= Len(bits) THEN GnResult(TRUE, "", bits, done)
    ELSE IF j >= nOffsets
    THEN GnLoop(bits, nOffsets, i + 1, 0, Append(done, neighbors), <<>>, build)
    ELSE IF j >= Len(bits) THEN GnResult(FALSE, "IndexError", bits, done)
    ELSE IF bits[j + 1] + 1 > 1 /\ build = "strict"
    THEN GnResult(FALSE, "ValueError", bits, done)
    ELSE GnLoop([bits EXCEPT ![j + 1] = 1], nOffsets, i, j + 1, done,
                Append(neighbors, bits[j + 1]), build)

Neighborhood_get_neighborhoods(p, offsets, build) ==
    IF \E k \in 1..Len(offsets) : ~Plane_flatten(p, offsets[k]).ok
    THEN GnResult(FALSE, "ValueError", p.bits, <<>>)
    ELSE GnLoop(p.bits, Len(offsets), 0, 0, <<>>, <<>>, build)

\* Neighborhood.get_neighborhoods(plane, offsets) of configuration.py: the same
\* loop, entered through plane.unflatten(i), which Plane does not define
Cfg_get_neighborhoods(p, offsets) ==
    IF \E k \in 1..Len(offsets) : ~Plane_flatten(p, offsets[k]).ok
    THEN GnResult(FALSE, "ValueError", p.bits, <<>>)
    ELSE IF Len(p.bits) > 0 THEN GnResult(FALSE, "AttributeError", p.bits, <<>>)
    ELSE GnResult(TRUE, "", p.bits, <<>>)

\* ------------------------------------------------------------------- inputs
\* coordinates with every component from one below to one above its dimension
RECURSIVE CoordInputs(_)
CoordInputs(shape) ==
    IF shape = <<>> THEN {<<>>}
    ELSE {<<x>> \o t : x \in -1..Head(shape), t \in CoordInputs(Tail(shape))}

InRange(c, shape) ==
    /\ Len(c) = Len(shape)
    /\ \A k \in 1..Len(c) : 0 <= c[k] /\ c[k] < shape[k]

FlatIndices(p) == 0..(Len(p.bits) - 1)

\* lists of distinct offsets along the first and the last axis
OffsetLists(n) ==
    {<<>>, <<North(n)>>, <<East(n)>>} \cup
    (IF North(n) = East(n) THEN {} ELSE {<<North(n), East(n)>>, <<East(n), North(n)>>})

\* offsets dictionaries: every offset of a list with an expected state
ExpectDicts(n) ==
    UNION {{[k \in 1..Len(l) |-> <<l[k], e[k]>>] : e \in [1..Len(l) -> {OFF, ON}]} :
           l \in OffsetLists(n)}

Init ==
    /\ \E s \in CamShapes : master = [shape |-> s, flat |-> Zeros(Prod(s))]
    /\ \E m \in Methods : ruleset = [method |-> m, configurations |-> <<>>]
    /\ plane = NoPlane
    /\ last = NoCall

\* CAM.randomize
Randomize ==
    /\ \E g \in Grids(Len(master.flat)) : master' = [master EXCEPT !.flat = g]
    /\ last' = NoCall
    /\ UNCHANGED <<ruleset, plane>>

\* Ruleset.addConfiguration(grid, next_state, offsets)
AddConfiguration ==
    /\ Len(ruleset.configurations) < MaxConfigs
    /\ \E ns \in NextStates, offs \in OffsetDicts(master.shape) :
          ruleset' = [ruleset EXCEPT !.configurations =
                         Append(@, NewConfiguration(master, ns, offs))]
    /\ last' = NoCall
    /\ UNCHANGED <<master, plane>>

\* CAM.tick(rules, *args)
Tick ==
    \E args \in TickArgs :
        LET r == TickResult(ruleset, master, args)
        IN  /\ master' = IF r.ok THEN r.val ELSE master
            /\ last' = [op |-> "tick", pre |-> master, args |-> args,
                        ok |-> r.ok, exc |-> IF r.ok THEN "" ELSE r.exc]
            /\ UNCHANGED <<ruleset, plane>>

Next == Randomize \/ AddConfiguration \/ Tick

Spec == Init /\ [][Next]_vars

\* ---------------------------------------------------------------- PlaneSpec
\* One caller works on one plane: it makes a call, reads what the call returned
\* (last) and then makes the next call.
NoMaster == [shape |-> <<>>, flat |-> <<>>]
NoRuleset == [method |-> "MATCH", configurations |-> <<>>]

PlaneInit ==
    /\ \E s \in Shapes : plane = NewPlane(s)
    /\ master = NoMaster
    /\ ruleset = NoRuleset
    /\ last = NoCall

\* plane[index] = value
SetItem ==
    /\ last = NoCall
    /\ \E c \in CoordInputs(plane.shape), v \in {0, 1} :
          plane' = Plane_setitem(plane, c, v)
    /\ last' = NoCall
    /\ UNCHANGED <<master, ruleset>>

\* plane[index]
GetItem ==
    /\ last = NoCall
    /\ \E c \in CoordInputs(plane.shape) :
          last' = [op |-> "getitem", index |-> c, ret |-> Plane_getitem(plane, c)]
    /\ UNCHANGED <<master, ruleset, plane>>

\* plane.flatten(coordinates)
Flatten ==
    /\ last = NoCall
    /\ \E c \in CoordInputs(plane.shape) :
          last' = [op |-> "flatten", coordinates |-> c, ret |-> Plane_flatten(plane, c)]
    /\ UNCHANGED <<master, ruleset, plane>>

\* camtools.flatten(coordinates, plane)
CtFlatten ==
    /\ last = NoCall
    /\ \E c \in CoordInputs(plane.shape) :
          last' = [op |-> "ct_flatten", coordinates |-> c, ret |-> Ct_flatten(c, plane)]
    /\ UNCHANGED <<master, ruleset, plane>>

\* camtools.unflatten(index, plane)
CtUnflatten ==
    /\ last = NoCall
    /\ \E i \in FlatIndices(plane) :
          last' = [op |-> "ct_unflatten", index |-> i, ret |-> Ct_unflatten(i, plane)]
    /\ UNCHANGED <<master, ruleset, plane>>

\* Neighborhood(focus).populate(plane, offsets)
Populate ==
    /\ last = NoCall
    /\ \E f \in FlatIndices(plane), offs \in OffsetLists(plane.N) :
          last' = [op |-> "populate", focus |-> f, offsets |-> offs, before |-> plane.bits,
                   ret |-> Neighborhood_populate(NewNeighborhood(f), plane, offs)]
    /\ UNCHANGED <<master, ruleset, plane>>

\* Configuration(ON, plane=plane, offsets=d).matches(plane, Neighborhood(focus))
Matches ==
    /\ last = NoCall
    /\ \E f \in FlatIndices(plane), d \in ExpectDicts(plane.N) :
          LET config == Cfg_new(Const(ON), plane, d)
          IN  last' = [op |-> "matches", focus |-> f, config |-> config,
                       before |-> plane.bits,
                       ret |-> Cfg_matches(config, plane, NewNeighborhood(f))]
    /\ UNCHANGED <<master, ruleset, plane>>

\* tolerances handed to tolerates: those of [0, 1] and one on either side of it
ToleranceInputs == Tolerances \cup {[num |-> -1, den |-> 2], [num |-> 3, den |-> 2]}

\* Configuration(ON, plane=plane, offsets=d).tolerates(plane, Neighborhood(focus), t)
Tolerates ==
    /\ last = NoCall
    /\ \E f \in FlatIndices(plane), d \in ExpectDicts(plane.N), t \in ToleranceInputs :
          LET config == Cfg_new(Const(ON), plane, d)
          IN  last' = [op |-> "tolerates", focus |-> f, config |-> config,
                       tolerance |-> t, before |-> plane.bits,
                       ret |-> Cfg_tolerates(config, plane, NewNeighborhood(f), t)]
    /\ UNCHANGED <<master, ruleset, plane>>

\* Neighborhood.get_totals(plane, offsets)
GetTotals ==
    /\ last = NoCall
    /\ \E offs \in OffsetLists(plane.N) :
          last' = [op |-> "get_totals", offsets |-> offs, before |-> plane.bits,
                   ret |-> Neighborhood_get_totals(plane, offs)]
    /\ UNCHANGED <<master, ruleset, plane>>

\* neighborhood.Neighborhood.get_neighborhoods(plane, offsets)
GetNeighborhoods ==
    /\ last = NoCall
    /\ \E offs \in OffsetLists(plane.N), build \in Builds :
          LET r == Neighborhood_get_neighborhoods(plane, offs, build)
          IN  /\ plane' = [plane EXCEPT !.bits = r.bits]
              /\ last' = [op |-> "get_neighborhoods", offsets |-> offs,
                          before |-> plane.bits, ret |-> r]
    /\ UNCHANGED <<master, ruleset>>

\* configuration.Neighborhood.get_neighborhoods(plane, offsets)
CfgGetNeighborhoods ==
    /\ last = NoCall
    /\ \E offs \in OffsetLists(plane.N) :
          LET r == Cfg_get_neighborhoods(plane, offs)
          IN  /\ plane' = [plane EXCEPT !.bits = r.bits]
              /\ last' = [op |-> "cfg_get_neighborhoods", offsets |-> offs,
                          before |-> plane.bits, ret |-> r]
    /\ UNCHANGED <<master, ruleset>>

\* ------------------------------------------- Configuration.passes, both kinds
\* Python's None
None == [none |-> TRUE]

\* Plane.matrix(): the numpy array a Ruleset of ruleset.py works on
Matrix(p) == [shape |-> p.shape, flat |-> p.bits]

\* next_state functions handed to a Configuration of configuration.py:
\* lambda *args: True, and the next_state of CAMParser._mcell, which reads
\* neighborhood.flat_index, an attribute no Neighborhood has, and game_of_life
\* of src/life.py, which iterates over its second argument (a Neighborhood
\* is not iterable: TypeError)
PlaneNextStates ==
    {Const(OFF), Const(ON), Fn("always_true"), Fn("mcell"),
     Fn("life.game_of_life")}

CallNextState(f, p, nb, args) ==
    CASE f.fn = "always_true" -> Ok(ON)
      [] f.fn = "mcell"       -> Raise("AttributeError")
      [] f.fn = "life.game_of_life" -> Raise("TypeError")
      [] OTHER                -> Raise("TypeError")

\* the bound methods handed to passes as vfunc
CallVfunc(vfunc, config, p, nb, args) ==
    CASE vfunc = "matches" ->
            IF Len(args) # 0 THEN Raise("TypeError") ELSE Cfg_matches(config, p, nb)
      [] vfunc = "tolerates" ->
            IF Len(args) # 1 THEN Raise("TypeError")
            ELSE Cfg_tolerates(config, p, nb, args[1])

\* Configuration.passes(plane, neighborhood, vfunc, *args) of configuration.py:
\* calling a constant next_state raises TypeError, which is caught, and so is a
\* TypeError raised inside a next_state function
Cfg_passes(config, p, nb, vfunc, args) ==
    LET v == CallVfunc(vfunc, config, p, nb, args)
    IN  IF ~v.ok THEN v
        ELSE IF ~v.val THEN Ok(<<FALSE, None>>)
        ELSE IF ~IsCallable(config.next_state) THEN Ok(<<TRUE, config.next_state>>)
        ELSE LET st == CallNextState(config.next_state, p, nb, args)
             IN  IF st.ok THEN Ok(<<TRUE, Const(st.val)>>)
                 ELSE IF st.exc = "TypeError" THEN Ok(<<TRUE, config.next_state>>)
                 ELSE st

\* whether passes calls a next_state function: configuration.py only after the
\* predicate held, ruleset.py whenever the predicate returned
Cfg_passesCalls(config, p, nb, vfunc, args) ==
    LET v == CallVfunc(vfunc, config, p, nb, args)
    IN  v.ok /\ v.val /\ IsCallable(config.next_state)

Rs_passesCalls(config, f_index, grid, method, args) ==
    /\ Vfunc(method, f_index, grid.flat, Indices(config, f_index, grid), config.states, args).ok
    /\ IsCallable(config.next_state)

\* one offset at most, with its expected state
PassDicts(n) == {d \in ExpectDicts(n) : Len(d) <= 1}

\* Configuration(ns, plane=plane, offsets=d).passes(plane, Neighborhood(f), vfunc, *args)
Passes ==
    /\ last = NoCall
    /\ \E f \in FlatIndices(plane), d \in PassDicts(plane.N), ns \in PlaneNextStates,
          va \in {<<"matches", <<>> >>, <<"tolerates", <<[num |-> 1, den |-> 2]>> >>} :
          LET config == Cfg_new(ns, plane, d)
              nb     == NewNeighborhood(f)
          IN  last' = [op |-> "passes", focus |-> f, config |-> config,
                       pred   |-> CallVfunc(va[1], config, plane, nb, va[2]),
                       called |-> Cfg_passesCalls(config, plane, nb, va[1], va[2]),
                       call   |-> IF IsCallable(ns)
                                  THEN CallNextState(ns, plane, nb, va[2])
                                  ELSE Raise("TypeError"),
                       ret    |-> Cfg_passes(config, plane, nb, va[1], va[2])]
    /\ UNCHANGED <<master, ruleset, plane>>

\* Configuration(grid, ns, offsets).passes(f, grid, vfunc, *args) of ruleset.py,
\* on the plane's matrix, with the vfunc Ruleset.applyTo selects for the method
RsPasses ==
    /\ last = NoCall
    /\ \E f \in FlatIndices(plane), d \in PassDicts(plane.N), ns \in NextStates,
          ma \in {<<"MATCH", <<>> >>, <<"SATISFY", <<Fn("focus_on")>> >>} :
          LET grid    == Matrix(plane)
              config  == NewConfiguration(grid, ns, d)
              indices == Indices(config, f, grid)
              r       == Rs_passes(config, f, grid, ma[1], ma[2])
          IN  last' = [op |-> "rs_passes", focus |-> f, config |-> config,
                       pred   |-> Vfunc(ma[1], f, grid.flat, indices, config.states, ma[2]),
                       called |-> Rs_passesCalls(config, f, grid, ma[1], ma[2]),
                       call   |-> IF IsCallable(ns)
                                  THEN CallUser(ns, f, grid.flat, indices, config.states)
                                  ELSE Raise("TypeError"),
                       ret    |-> IF r.ok THEN Ok(<<r.val[1], Const(r.val[2])>>) ELSE r]
    /\ UNCHANGED <<master, ruleset, plane>>

\* ------------------------------------------ Configuration.moore and neumann
\* offsets[key] = value on a dict kept as the sequence of its (key, value)
\* pairs in insertion order
DictSet(d, key, value) ==
    IF \E k \in 1..Len(d) : d[k][1] = key
    THEN [k \in 1..Len(d) |-> IF d[k][1] = key THEN <<key, value>> ELSE d[k]]
    ELSE Append(d, <<key, value>>)

Variant == <<-1, 0, 1>>

\* itertools.product(*([-1, 0, 1],) * n): the last component runs fastest
RECURSIVE ProductSeq(_)
ProductSeq(n) ==
    IF n = 0 THEN << <<>> >>
    ELSE LET rest == ProductSeq(n - 1)
             L    == Len(rest)
         IN  [k \in 1..(Len(Variant) * L) |->
                <<Variant[((k - 1) \div L) + 1]>> \o rest[((k - 1) % L) + 1]]

\* any(current)
AnyOf(current) == \E k \in 1..Len(current) : current[k] # 0

RECURSIVE MooreLoop(_, _, _, _, _)
MooreLoop(prod, k, offsets, value, withCentre) ==
    IF k > Len(prod) THEN offsets
    ELSE IF AnyOf(prod[k]) \/ withCentre
    THEN MooreLoop(prod, k + 1, DictSet(offsets, prod[k], value), value, withCentre)
    ELSE MooreLoop(prod, k + 1, offsets, value, withCentre)

\* Configuration.moore(plane, value)
Cfg_mooreWithCentre(p, value) == MooreLoop(ProductSeq(Len(p.shape)), 1, <<>>, value, TRUE)
Cfg_moore(p, value) == MooreLoop(ProductSeq(Len(p.shape)), 1, <<>>, value, FALSE)

\* for i in range(len(variant)): for j in [-1, 1]: variant[i] = j;
\* offsets[tuple(variant)] = value; and then variant[i] = back, where back is 0
RECURSIVE NeumannLoop(_, _, _, _, _, _)
NeumannLoop(n, i, variant, offsets, value, back) ==
    IF i > n THEN offsets
    ELSE LET v1 == [variant EXCEPT ![i] = -1]
             o1 == DictSet(offsets, v1, value)
             v2 == [v1 EXCEPT ![i] = 1]
             o2 == DictSet(o1, v2, value)
         IN  NeumannLoop(n, i + 1, [v2 EXCEPT ![i] = back], o2, value, back)

\* Configuration.neumann(plane, value)
Cfg_neumannNoReset(p, value) ==
    NeumannLoop(Len(p.shape), 1, Zeros(Len(p.shape)), <<>>, value, 1)
Cfg_neumann(p, value) ==
    NeumannLoop(Len(p.shape), 1, Zeros(Len(p.shape)), <<>>, value, 0)

\* Configuration.moore(plane, value)
Moore ==
    /\ last = NoCall
    /\ \E v \in {OFF, ON} :
          last' = [op |-> "moore", value |-> v, ret |-> Cfg_moore(plane, v)]
    /\ UNCHANGED <<master, ruleset, plane>>

\* Configuration.neumann(plane, value)
Neumann ==
    /\ last = NoCall
    /\ \E v \in {OFF, ON} :
          last' = [op |-> "neumann", value |-> v, ret |-> Cfg_neumann(plane, v)]
    /\ UNCHANGED <<master, ruleset, plane>>

\* ----------------------------------------------------------- Plane(shape)
\* Plane.__init__(shape): no check of the shape; a product of the dimensions
\* that is zero or negative gives an empty bitarray
Plane_init(shape) == Ok(NewPlane(shape))

\* shapes of one or two dimensions, non-positive dimensions among them
ShapeInputs ==
    {s \in UNION {Tuples(-1..MaxSide, n) : n \in 1..2} : Prod(s) <= MaxCells}

\* Plane(shape), a second plane next to the one at hand
Create ==
    /\ last = NoCall
    /\ \E s \in ShapeInputs :
          last' = [op |-> "create", shape |-> s, ret |-> Plane_init(s)]
    /\ UNCHANGED <<master, ruleset, plane>>

\* ------------------------------------------------ attaching a configuration
\* Configuration(next_state, plane=plane, offsets=offsets) of configuration.py:
\* extend_offsets stores the coordinates as they come
Cfg_init(next_state, p, offsets) == Ok(Cfg_new(next_state, p, offsets))

\* Configuration(grid, next_state, offsets) of ruleset.py: flatten(k, grid)
\* raises IndexError for a key longer than grid.shape and gives an index for a
\* shorter one
Rs_init(grid, next_state, offsets) ==
    IF \E k \in 1..Len(offsets) : ~RsFlatten(offsets[k][1], grid).ok
    THEN Raise("IndexError")
    ELSE Ok(NewConfiguration(grid, next_state, offsets))

\* offsets dictionaries with one offset of one component less or one more than
\* the plane has dimensions, next to those of the right length
ArityDicts(n) ==
    {<< <<Zeros(m), ON>> >> : m \in {n - 1, n + 1}} \cup PassDicts(n)

\* the first use of an attached configuration: matches for cell 0
Attach ==
    /\ last = NoCall
    /\ \E d \in ArityDicts(plane.N) :
          \/ LET r == Cfg_init(Const(ON), plane, d)
             IN  last' = [op |-> "attach", kind |-> "configuration.py", offsets |-> d,
                          ret |-> r,
                          use |-> IF r.ok THEN Cfg_matches(r.val, plane, NewNeighborhood(0))
                                  ELSE r]
          \/ LET r == Rs_init(Matrix(plane), Const(ON), d)
             IN  last' = [op |-> "attach", kind |-> "ruleset.py", offsets |-> d,
                          ret |-> r,
                          use |-> IF r.ok
                                  THEN Rs_matches(0, plane.bits,
                                          Indices(r.val, 0, Matrix(plane)), r.val.states, <<>>)
                                  ELSE r]
    /\ UNCHANGED <<master, ruleset, plane>>

\* ------------------------------------------------------- Plane.randomize
\* bin(n)[2:]
RECURSIVE BinDigits(_)
BinDigits(n) == IF n < 2 THEN <<n>> ELSE Append(BinDigits(n \div 2), n % 2)

\* random.randrange(0, max_unsigned)
RandRange(max_unsigned) == 0..(max_unsigned - 1)

\* Plane.randomize() when randrange draws k
Plane_randomize(p, k) ==
    IF p.N > 0
    THEN LET max_unsigned == Prod(p.shape)
         IN  [p EXCEPT !.bits = Zfill(BinDigits(k), max_unsigned)]
    ELSE p

\* plane.randomize()
PlaneRandomize ==
    /\ last = NoCall
    /\ \E k \in RandRange(Prod(plane.shape)) :
          /\ plane' = Plane_randomize(plane, k)
          /\ last' = [op |-> "randomize", before |-> plane, k |-> k]
    /\ UNCHANGED <<master, ruleset>>

\* the caller has read the result of its call and goes on to the next one
Return ==
    /\ last # NoCall
    /\ last' = NoCall
    /\ UNCHANGED <<master, ruleset, plane>>

PlaneNext ==
    \/ SetItem \/ GetItem \/ Flatten \/ CtFlatten \/ CtUnflatten
    \/ Populate \/ Matches \/ Tolerates \/ GetTotals
    \/ GetNeighborhoods \/ CfgGetNeighborhoods
    \/ Passes \/ RsPasses \/ Moore \/ Neumann \/ Create \/ Attach
    \/ PlaneRandomize
    \/ Return

PlaneSpec == PlaneInit /\ [][PlaneNext]_vars

\* ------------------------------------------------------------------ claims
Cells == 0..(Len(master.flat) - 1)

\* configuration k passes for cell i of grid: Configuration.passes returns
\* success; a ruleset whose method is none of MATCH, TOLERATE, SATISFY consults
\* no configuration
PassesAt(k, i, grid, args) ==
    /\ ruleset.method \in {"MATCH", "TOLERATE", "SATISFY"}
    /\ LET r == Rs_passes(ruleset.configurations[k], i, grid, ruleset.method, args)
       IN  r.ok /\ r.val[1]

Passing(i, grid, args) ==
    {k \in 1..Len(ruleset.configurations) : PassesAt(k, i, grid, args)}

SetMin(S) == CHOOSE x \in S : \A y \in S : x <= y

\* C1: after a tick every cell holds its next state computed from the grid as it
\* was before the tick (so the result is the same for every order of
\* evaluation), and a tick that raises leaves the grid as it was.
C1_TickReadsPriorGrid ==
    last.op = "tick" =>
        IF last.ok
        THEN \A i \in Cells :
                LET r == ApplyTo(ruleset, i, last.pre, last.args)
                IN  r.ok /\ master.flat[i + 1] = r.val
        ELSE master = last.pre

\* a tick whose result differs from what evaluating the cells one after the
\* other on the grid being written would have given
C1_Witness ==
    /\ last.op = "tick" /\ last.ok /\ master # last.pre
    /\ LET r == TickLoopInPlace(ruleset, last.pre, last.pre, 0, last.args)
       IN  r.ok /\ r.val # master

\* C3: a cell for which one or more configurations pass gets the resolved
\* next_state of the earliest-added passing configuration.
C3_FirstMatchWins ==
    (last.op = "tick" /\ last.ok) =>
        \A i \in Cells :
            LET P == Passing(i, last.pre, last.args)
            IN  P # {} =>
                  master.flat[i + 1] =
                     Rs_passes(ruleset.configurations[SetMin(P)], i, last.pre,
                               ruleset.method, last.args).val[2]

\* a tick in which two configurations pass for one cell and resolve to
\* different states
C3_Witness ==
    /\ last.op = "tick" /\ last.ok
    /\ \E i \in Cells :
          LET P == Passing(i, last.pre, last.args)
          IN  \E a \in P, b \in P :
                 /\ a < b
                 /\ Rs_passes(ruleset.configurations[a], i, last.pre,
                              ruleset.method, last.args).val[2]
                    # Rs_passes(ruleset.configurations[b], i, last.pre,
                                ruleset.method, last.args).val[2]

\* C4: under every method a cell for which no configuration passes keeps its
\* state, and a ruleset without configurations leaves the grid unchanged.
C4_IdentityDefault ==
    last.op = "tick" =>
        /\ ~last.ok => master = last.pre
        /\ last.ok => \A i \in Cells :
               Passing(i, last.pre, last.args) = {} =>
                   master.flat[i + 1] = last.pre.flat[i + 1]
        /\ Len(ruleset.configurations) = 0 => (last.ok /\ master = last.pre)

\* a tick of a ruleset with configurations in which a live cell is passed by
\* none of them
C4_Witness ==
    /\ last.op = "tick" /\ last.ok
    /\ Len(ruleset.configurations) > 0
    /\ \E i \in Cells :
          /\ Passing(i, last.pre, last.args) = {}
          /\ last.pre.flat[i + 1] = 1
          /\ master.flat[i + 1] = 1

\* -------------------------------------------------- claims about the plane
\* The reading the claims give to "the cell at a coordinate": every component
\* is taken modulo its own dimension, and the cell is the one at the row-major
\* index of the result.
RowMajor(c, shape) == SumSeq([k \in 1..Len(c) |-> c[k] * Prod(Suffix(shape, k))])
TorusCell(p, c) == p.bits[RowMajor([k \in 1..Len(c) |-> c[k] % p.shape[k]], p.shape) + 1]

\* the cell Plane.__getitem__ gives for the coordinate of flat index focus moved
\* by offset
CellAt(focus, offset) ==
    Plane_getitem(plane, Comp_add(Ct_unflatten(focus, plane), offset)).val

MatchCount(focus, config) ==
    Cardinality({k \in 1..Len(config.offsets) :
                    CellAt(focus, config.offsets[k]) = config.sequence[k]})

\* C2: gathering neighbourhoods (populate, get_neighborhoods, get_totals, and
\* the predicates built on them) leaves every cell of the plane it was given
\* as it was before the call.
C2_GatheringLeavesPlane ==
    last.op \in {"populate", "matches", "tolerates", "get_totals",
                 "get_neighborhoods", "cfg_get_neighborhoods"} =>
        plane.bits = last.before

\* C5: plane[c] = plane[c + shape_i * e_i] for every coordinate c and axis i.
C5_WrapsPerDimension ==
    (last.op = "getitem" /\ last.ret.ok) =>
        \A i \in 1..plane.N :
            LET r == Plane_getitem(plane,
                        Comp_add(last.index, UnitVec(plane.N, i, plane.shape[i])))
            IN  r.ok /\ r.val = last.ret.val

\* C6: flatten and unflatten are inverse to each other between the in-range
\* coordinates and the flat indices, and Plane.flatten agrees with them there.
C6_FlattenUnflattenInverse ==
    /\ (last.op = "ct_flatten" /\ InRange(last.coordinates, plane.shape)) =>
          /\ last.ret \in FlatIndices(plane)
          /\ Ct_unflatten(last.ret, plane) = last.coordinates
    /\ last.op = "ct_unflatten" =>
          /\ InRange(last.ret, plane.shape)
          /\ Ct_flatten(last.ret, plane) = last.index
          /\ Plane_flatten(plane, last.ret) = Ok(last.index)
    /\ (last.op = "flatten" /\ InRange(last.coordinates, plane.shape)) =>
          /\ last.ret.ok
          /\ Ct_unflatten(last.ret.val, plane) = last.coordinates

\* unflatten of a non-zero index of a plane with two axes longer than one cell
C6_Witness ==
    /\ last.op = "ct_unflatten"
    /\ last.index > 0
    /\ Cardinality({k \in 1..plane.N : plane.shape[k] >= 2}) >= 2

\* C7: get_totals returns one total per cell, in flat order, and each is the
\* number of offsets whose cell, with per-dimension wraparound, is on.
C7_TotalsEqualNaiveSum ==
    last.op = "get_totals" =>
        /\ last.ret.ok
        /\ Len(last.ret.val) = Prod(plane.shape)
        /\ \A i \in FlatIndices(plane) :
              last.ret.val[i + 1] =
                 Cardinality({k \in 1..Len(last.offsets) :
                    TorusCell(plane, Comp_add(Ct_unflatten(i, plane), last.offsets[k])) = 1})

\* C8: populate gives one neighbor per offset, in offset order, each the cell
\* at the focus coordinate plus the offset with per-dimension wraparound.
C8_PopulatePerComponent ==
    last.op = "populate" =>
        /\ last.ret.ok
        /\ Len(last.ret.val.neighbors) = Len(last.offsets)
        /\ \A k \in 1..Len(last.offsets) :
              last.ret.val.neighbors[k] =
                 TorusCell(plane, Comp_add(Ct_unflatten(last.focus, plane), last.offsets[k]))

C10_ToleratesIffFraction ==
    (last.op = "tolerates" /\ Len(last.config.offsets) > 0) =>
        /\ last.ret.ok
        /\ last.ret.val =
              (MatchCount(last.focus, last.config) * last.tolerance.den
                 >= last.tolerance.num * Len(last.config.offsets))

\* tolerates called exactly at the threshold: one of two offsets matches and
\* the tolerance is one half
C10_Witness ==
    /\ last.op = "tolerates"
    /\ Len(last.config.offsets) = 2
    /\ MatchCount(last.focus, last.config) = 1
    /\ last.tolerance = [num |-> 1, den |-> 2]
    /\ last.ret.ok /\ last.ret.val

\* C11: tolerates with tolerance 1.0 returns what matches returns, for every
\* plane, focus and configuration.
C11_ToleratesOneIsMatches ==
    (last.op = "tolerates" /\ last.tolerance = [num |-> 1, den |-> 1]) =>
        last.ret = Cfg_matches(last.config, plane, NewNeighborhood(last.focus))

\* the state passes resolves next_state to: the constant itself, or what the
\* call of the function returned
Resolved(l) ==
    IF IsCallable(l.config.next_state) THEN Const(l.call.val) ELSE l.config.next_state

\* C12: passes returns (True, resolved next_state) when the predicate holds,
\* and (False, None) without evaluating next_state when it does not.
C12_PassesResolves ==
    (last.op \in {"passes", "rs_passes"} /\ last.pred.ok) =>
        IF last.pred.val
        THEN (IsCallable(last.config.next_state) => last.call.ok) =>
                last.ret = Ok(<<TRUE, Resolved(last)>>)
        ELSE last.ret = Ok(<<FALSE, None>>) /\ ~last.called

\* the state configuration k of the ruleset resolves to for cell i of grid
ResolvedAt(k, i, grid) ==
    LET config == ruleset.configurations[k]
    IN  IF IsCallable(config.next_state)
        THEN CallUser(config.next_state, i, grid.flat,
                      Indices(config, i, grid), config.states).val
        ELSE config.next_state.const

\* C13: under ALWAYS_PASS a ruleset with at least one configuration gives every
\* cell the resolved next_state of its first configuration.
C13_AlwaysPassFirstConfig ==
    (last.op = "tick" /\ ruleset.method = "ALWAYS_PASS"
        /\ Len(ruleset.configurations) > 0) =>
        /\ last.ok
        /\ \A i \in Cells : master.flat[i + 1] = ResolvedAt(1, i, last.pre)

IsTolerance(x) == "num" \in DOMAIN x

\* the configurations of the ruleset whose fraction of offsets holding their
\* expected state, around cell i of grid, is at least tolerance
Tolerated(i, grid, tolerance) ==
    {k \in 1..Len(ruleset.configurations) :
        LET config  == ruleset.configurations[k]
            indices == Indices(config, i, grid)
            n       == Len(config.states)
        IN  (n - CountNonMatches(grid.flat, indices, config.states)) * tolerance.den
               >= tolerance.num * n}

\* C14: under TOLERATE, apply with a tolerance gives a cell the next_state of the
\* (first) configuration whose matching fraction is at least the tolerance and
\* leaves every other cell as it was; every configuration has an offset.
C14_ToleratePerFraction ==
    (/\ last.op = "tick" /\ ruleset.method = "TOLERATE"
     /\ Len(last.args) = 1 /\ IsTolerance(last.args[1])
     /\ \A k \in 1..Len(ruleset.configurations) :
           Len(ruleset.configurations[k].states) > 0) =>
        /\ last.ok
        /\ \A i \in Cells :
              LET T == Tolerated(i, last.pre, last.args[1])
              IN  master.flat[i + 1] =
                     IF T # {} THEN ResolvedAt(SetMin(T), i, last.pre)
                     ELSE last.pre.flat[i + 1]

RECURSIVE Pow(_, _)
Pow(b, n) == IF n = 0 THEN 1 ELSE b * Pow(b, n - 1)

Keys(d) == {d[k][1] : k \in 1..Len(d)}

\* C15: moore returns every N-tuple over {-1, 0, 1} but the zero vector, each
\* once: 3^N - 1 offsets, each with the value asked for.
C15_MooreAllButCentre ==
    last.op = "moore" =>
        /\ Keys(last.ret) = Tuples({-1, 0, 1}, plane.N) \ {Zeros(plane.N)}
        /\ Len(last.ret) = Pow(3, plane.N) - 1
        /\ \A k \in 1..Len(last.ret) : last.ret[k][2] = last.value

\* moore on a plane of three dimensions: 26 offsets
C15_Witness ==
    /\ last.op = "moore"
    /\ plane.N = 3
    /\ Len(last.ret) = 26

\* C16: neumann returns the 2N offsets that are +1 or -1 on one axis and 0 on
\* all others, each once, and never the zero vector.
C16_NeumannUnitOffsets ==
    last.op = "neumann" =>
        /\ Keys(last.ret) = {UnitVec(plane.N, i, v) : i \in 1..plane.N, v \in {-1, 1}}
        /\ Len(last.ret) = 2 * plane.N
        /\ Zeros(plane.N) \notin Keys(last.ret)
        /\ \A k \in 1..Len(last.ret) : last.ret[k][2] = last.value

\* neumann on a plane of three dimensions: 6 offsets
C16_Witness ==
    /\ last.op = "neumann"
    /\ plane.N = 3
    /\ Len(last.ret) = 6

\* C17: creating a plane with a dimension that is zero or negative fails, and
\* no plane is constructed.
C17_NonPositiveShapeFails ==
    (last.op = "create" /\ \E k \in 1..Len(last.shape) : last.shape[k] <= 0) =>
        ~last.ret.ok

\* the tolerance lies in [0, 1]
InUnitInterval(t) == 0 <= t.num /\ t.num <= t.den

\* C18: tolerates fails (raises) instead of returning a boolean whenever the
\* tolerance is outside [0, 1] or the configuration has no offsets.
C18_ToleratesRejects ==
    (last.op = "tolerates"
        /\ (~InUnitInterval(last.tolerance) \/ Len(last.config.offsets) = 0)) =>
        ~last.ret.ok

\* the tick was made without the argument its method needs: no tolerance for
\* TOLERATE, no predicate for SATISFY, or an argument of the other kind
MissingArgument ==
    \/ /\ ruleset.method = "TOLERATE"
       /\ (Len(last.args) = 0 \/ ~IsTolerance(last.args[1]))
    \/ /\ ruleset.method = "SATISFY"
       /\ (Len(last.args) = 0 \/ ~IsCallable(last.args[1]))

\* C19 as stated: such an apply fails whatever the number of configurations,
\* and leaves the grid unchanged.
C19_MissingArgumentFails ==
    (last.op = "tick" /\ MissingArgument) =>
        ~last.ok /\ master = last.pre

\* C19 as amended: such an apply raises when the ruleset has a configuration
\* and succeeds, without looking at its arguments, when it has none; the grid
\* is left unchanged either way.
C19_MissingArgumentFailsWithConfigs ==
    (last.op = "tick" /\ MissingArgument) =>
        /\ master = last.pre
        /\ last.ok <=> Len(ruleset.configurations) = 0

\* a SATISFY ruleset with a configuration ticked without a predicate
C19_Witness ==
    /\ last.op = "tick" /\ ruleset.method = "SATISFY"
    /\ Len(ruleset.configurations) > 0
    /\ last.args = <<>>
    /\ ~last.ok /\ last.exc = "TypeError"

\* C20: attaching a configuration with an offset whose number of components
\* differs from the plane's number of dimensions fails at the attachment.
C20_ArityCheckedAtAttach ==
    (last.op = "attach"
        /\ \E k \in 1..Len(last.offsets) : Len(last.offsets[k][1]) # plane.N) =>
        ~last.ret.ok

\* C21: an error raised by the predicate or by the next_state function of a
\* configuration comes out of passes, and so out of the tick, as it was raised.
C21_ErrorsPropagate ==
    last.op \in {"passes", "rs_passes"} =>
        /\ ~last.pred.ok => last.ret = last.pred
        /\ (last.called /\ ~last.call.ok) => last.ret = last.call

\* C22: a grid just created has all its cells false, and at every moment the
\* grid at hand and any grid just created store as many cells as the product
\* of the dimensions of their shape.
C22_CellCountIsShapeProduct ==
    /\ Len(plane.bits) = Prod(plane.shape)
    /\ (last.op = "create" /\ last.ret.ok) =>
          /\ \A i \in 1..Len(last.ret.val.bits) : last.ret.val.bits[i] = 0
          /\ Len(last.ret.val.bits) = Prod(last.ret.val.shape)
          /\ last.ret.val.shape = last.shape

\* C29: whatever the grid held, every assignment of its cells is a possible
\* result of randomize.
C29_RandomizeReachesEveryAssignment ==
    last.op = "randomize" =>
        \A g \in Grids(Len(last.before.bits)) :
            \E k \in RandRange(Prod(last.before.shape)) :
                Plane_randomize(last.before, k).bits = g

\* C23: the strides of the grid are row-major, stride[i] = product of
\* shape[i+1:], and flatten of a coordinate of the right arity, negative and
\* out-of-range components included, is the sum of c_i * stride[i] modulo the
\* number of cells, a flat index of the grid.
C23_FlattenIsRowMajor ==
    /\ \A k \in 1..plane.N : plane.offsets[k] = Prod(Suffix(plane.shape, k))
    /\ (last.op = "flatten" /\ Len(last.coordinates) = plane.N) =>
          /\ last.ret.ok
          /\ last.ret.val = RowMajor(last.coordinates, plane.shape) % Prod(plane.shape)
          /\ last.ret.val \in 0..(Prod(plane.shape) - 1)

C23_Witness ==
    /\ last.op = "flatten"
    /\ plane.N = 2 /\ plane.shape[1] >= 2 /\ plane.shape[2] >= 2
    /\ last.coordinates[1] = -1 /\ last.coordinates[2] = 0
    /\ last.ret = Ok(Prod(plane.shape) - plane.shape[2])

\* ------------------------------------------- life-like automata on the CAM
\* the most ticks a run of the automaton takes
MaxTicks == 4

\* Configuration.moore(grid, value) of ruleset.py
Rs_moore(grid, value) == MooreLoop(ProductSeq(Len(grid.shape)), 1, <<>>, value, FALSE)

\* CAM(1, states, 2).master with the cells of the set live made ON
GridOf(shape, live) ==
    [shape |-> shape,
     flat  |-> [i \in 1..Prod(shape) |->
                   IF \E c \in live : RowMajor(c, shape) = i - 1 THEN ON ELSE OFF]]

Coordinates(shape) == {c \in CoordInputs(shape) : InRange(c, shape)}

LiveCells(grid) ==
    {c \in Coordinates(grid.shape) : grid.flat[RowMajor(c, grid.shape) + 1] = ON}

\* cells moved by d, each component modulo the side of the grid
Translated(live, d, shape) ==
    {[k \in 1..Len(shape) |-> (c[k] + d[k]) % shape[k]] : c \in live}

\* the glider  .O. / ..O / OOO
Glider == {<<0, 1>>, <<1, 2>>, <<2, 0>>, <<2, 1>>, <<2, 2>>}

GliderShape == <<5, 5>>
SmallShape == <<3, 3>>

GliderGrids ==
    {GridOf(GliderShape, Translated(Glider, d, GliderShape)) :
        d \in Coordinates(GliderShape)}

CentreGrid == GridOf(SmallShape, {<<1, 1>>})

DeadGrids == {GridOf(GliderShape, {}), GridOf(SmallShape, {})}

StartGrids == GliderGrids \cup {CentreGrid} \cup DeadGrids

\* next_state functions of the life-like rules: the examples, and _mcell of
\* 23/3, of /2 and of a rule that gives birth on no neighbour
LifeNextStates ==
    {Fn("game_of_life"), Fn("seeds"),
     Mcell(<<2, 3>>, <<3>>), Mcell(<<>>, <<2>>), Mcell(<<>>, <<0, 2>>)}

\* r = Ruleset(Method.SATISFY); r.addConfiguration(c.master, f, moore(c.master))
LifeRuleset(grid, f) ==
    [method |-> "SATISFY",
     configurations |-> <<NewConfiguration(grid, f, Rs_moore(grid, ON))>>]

LifeInit ==
    /\ master \in StartGrids
    /\ \E f \in LifeNextStates : ruleset = LifeRuleset(master, f)
    /\ plane = NoPlane
    /\ last = [op |-> "start", start |-> master, n |-> 0]

\* one call of c.tick(r, lambda *args: True)
LifeTick ==
    /\ last.n < MaxTicks
    /\ LET r == TickResult(ruleset, master, <<Fn("always_true")>>)
       IN  /\ r.ok
           /\ master' = r.val
    /\ last' = [op |-> "tick", start |-> last.start, n |-> last.n + 1]
    /\ UNCHANGED <<ruleset, plane>>

\* ------------------------------------------------------- util.py CAMParser
\* the members of the enumeration Ruleset.Method
MethodMembers == {"MATCH", "TOLERATE", "SATISFY"}

\* Ruleset.Method.<name>
MethodAttr(name) == IF name \in MethodMembers THEN Ok(name) ELSE Raise("AttributeError")

DigitChars == <<"0", "1", "2", "3", "4", "5", "6", "7", "8", "9">>

IsDigit(ch) == \E k \in 1..Len(DigitChars) : DigitChars[k] = ch

\* int(ch)
DigitVal(ch) == (CHOOSE k \in 1..Len(DigitChars) : DigitChars[k] = ch) - 1

AllDigits(s) == \A k \in 1..Len(s) : IsDigit(s[k])

\* the positions of '/' in the notation
Slashes(notation) == {k \in 1..Len(notation) : notation[k] = "/"}

\* notation.split('/') of a notation with one '/'
Split(notation) ==
    LET i == CHOOSE k \in Slashes(notation) : TRUE
    IN  <<SubSeq(notation, 1, i - 1), SubSeq(notation, i + 1, Len(notation))>>

\* re.match(r'\d*/\d*$', notation)
MatchesMcell(notation) ==
    /\ Cardinality(Slashes(notation)) = 1
    /\ AllDigits(Split(notation)[1]) /\ AllDigits(Split(notation)[2])

\* re.match(r'B\d*/S\d*$', notation)
MatchesRle(notation) ==
    /\ Cardinality(Slashes(notation)) = 1
    /\ LET B == Split(notation)[1]
           S == Split(notation)[2]
       IN  /\ Len(B) >= 1 /\ B[1] = "B" /\ AllDigits(Tail(B))
           /\ Len(S) >= 1 /\ S[1] = "S" /\ AllDigits(Tail(S))

\* CAMParser._numasc(value): digits only, and sorted(value) == value
Numasc(value) ==
    /\ AllDigits(value)
    /\ \A j, k \in 1..Len(value) : j < k => DigitVal(value[j]) <= DigitVal(value[k])

\* list(map(int, x))
IntList(x) == [k \in 1..Len(x) |-> DigitVal(x[k])]

\* CAMParser(notation, cam): the parser that was built, or the exception
CAMParser_init(notation, grid) ==
    LET offsets == Rs_moore(grid, ON)
        method  == MethodAttr("ALWAYS_PASS")
        built(sfunc) ==
            Ok([sfunc   |-> sfunc,
                offsets |-> offsets,
                ruleset |-> [method |-> method.val,
                             configurations |->
                                 <<NewConfiguration(grid, sfunc, offsets)>>]])
    IN  IF ~method.ok THEN method
        ELSE IF MatchesMcell(notation)
        THEN LET x == Split(notation)[1]
                 y == Split(notation)[2]
             IN  IF Numasc(x) /\ Numasc(y)
                 THEN built(Mcell(IntList(x), IntList(y)))
                 ELSE Raise("InvalidFormat")
        ELSE IF MatchesRle(notation)
        THEN LET B == Tail(Split(notation)[1])
                 S == Tail(Split(notation)[2])
             IN  IF Numasc(B) /\ Numasc(S)
                 THEN built(Mcell(IntList(S), IntList(B)))
                 ELSE Raise("InvalidFormat")
        ELSE Raise("InvalidFormat")

\* notations handed to the parser: Life in both notations, Seeds, digits out
\* of order, and no notation at all
Notations ==
    {<<"B", "3", "/", "S", "2", "3">>, <<"2", "3", "/", "3">>,
     <<"B", "2", "/", "S">>, <<"3", "2", "/", "3">>, <<"l", "i", "f", "e">>}

\* CAMParser(notation, c)
Parse ==
    /\ last.op # "parse"
    /\ \E nt \in Notations :
          last' = [op |-> "parse", start |-> last.start, n |-> last.n,
                   notation |-> nt, ret |-> CAMParser_init(nt, master)]
    /\ UNCHANGED <<master, ruleset, plane>>

LifeNext == LifeTick \/ Parse

LifeSpec == LifeInit /\ [][LifeNext]_vars

\* the rulesets of Life, B3/S23: game_of_life of the examples and _mcell of 23/3
IsLife == ruleset.configurations[1].next_state \in {Fn("game_of_life"), Mcell(<<2, 3>>, <<3>>)}

\* the birth digits of the rule of the ruleset
BirthSet ==
    LET f == ruleset.configurations[1].next_state
    IN  CASE f = Fn("game_of_life") -> {3}
          [] f = Fn("seeds")        -> {2}
          [] OTHER                  -> {f.y[k] : k \in 1..Len(f.y)}

AllDead(grid) == \A i \in 1..Len(grid.flat) : grid.flat[i] = OFF

\* C24: on the 5x5 grid under Life with the Moore neighbourhood, four ticks
\* after the glider was put at any position its live cells are the starting
\* live cells moved by (1,1), each component modulo 5.
C24_GliderTranslates ==
    (last.op = "tick" /\ last.n = 4 /\ last.start \in GliderGrids /\ IsLife) =>
        LiveCells(master) = Translated(LiveCells(last.start), <<1, 1>>, master.shape)

\* C25: one tick of Life on the 3x3 grid with only its centre cell live gives
\* the grid of zeros.
C25_LoneCellDies ==
    (last.op = "tick" /\ last.n = 1 /\ last.start = CentreGrid /\ IsLife) =>
        master.flat = Zeros(Prod(SmallShape))

C25_Witness ==
    /\ last.op = "tick" /\ last.n = 1 /\ last.start = CentreGrid /\ IsLife
    /\ LiveCells(last.start) = {<<1, 1>>}
    /\ AllDead(master)

\* C26: under Seeds, and under every rule whose birth set has no 0, a grid
\* that started all dead is all dead after any number of ticks.
C26_NoSpontaneousGeneration ==
    (AllDead(last.start) /\ 0 \notin BirthSet) => AllDead(master)

C26_Witness ==
    /\ last.op = "tick" /\ last.n = MaxTicks
    /\ AllDead(last.start) /\ ruleset.configurations[1].next_state = Fn("seeds")
    /\ AllDead(master)

\* C27: a rule notation in RLE or MCell form gives a parser whose next_state
\* function follows the digits of the notation: survival digits for a live
\* focus cell, birth digits for a dead one.
SurvivalBirth(notation) ==
    IF MatchesMcell(notation)
    THEN <<Split(notation)[1], Split(notation)[2]>>
    ELSE <<Tail(Split(notation)[2]), Tail(Split(notation)[1])>>

WellFormed(notation) ==
    /\ MatchesMcell(notation) \/ MatchesRle(notation)
    /\ Numasc(SurvivalBirth(notation)[1]) /\ Numasc(SurvivalBirth(notation)[2])

C27_NotationGivesNextState ==
    (last.op = "parse" /\ WellFormed(last.notation)) =>
        /\ last.ret.ok
        /\ last.ret.val.sfunc = Mcell(IntList(SurvivalBirth(last.notation)[1]),
                                     IntList(SurvivalBirth(last.notation)[2]))

\* ------------------------------- the run loops: cam.py start_console and
\* display.py ConsoleDisplay.run, one step of the interpreter at a time
\* the loops: CAM.start_console; ConsoleDisplay.run on a CAM of cam.py, whose
\* planes are numpy arrays; ConsoleDisplay.run on a CAM whose planes were
\* replaced by Plane objects
Loops == {"start_console", "run_ndarray", "run_Plane"}

DisplayShapes == {s \in CamShapes : Len(s) = 2}

RunNextStates == {Fn("game_of_life"), Fn("replicator")}

\* the arguments of the tick in examples/life.py:41
RunTickArgs == <<Fn("always_true")>>

RunInit ==
    /\ \E s \in DisplayShapes : \E g \in Grids(Prod(s)) : master = [shape |-> s, flat |-> g]
    /\ \E f \in RunNextStates : ruleset = LifeRuleset(master, f)
    /\ \E l \in Loops :
          /\ plane = IF l = "run_Plane" THEN PlaneOf(master.shape, master.flat) ELSE NoPlane
          /\ last = [op |-> "run", loop |-> l, pc |-> "loop", tmp |-> master, i |-> 0,
                     ticks |-> 0, drawn |-> 0, exc |-> "", at |-> ""]

Running == last.op = "run" /\ last.pc # "raised"

\* start_console: print(self.master)
ConsolePrint ==
    /\ Running /\ last.loop = "start_console" /\ last.pc = "loop"
    /\ last' = [last EXCEPT !.pc = "sleep", !.drawn = @ + 1]
    /\ UNCHANGED <<master, ruleset, plane>>

\* run: getmaxyx and _shift(getch()) move the view and leave the planes alone
RunGetch ==
    /\ Running /\ last.loop # "start_console" /\ last.pc = "loop"
    /\ last' = [last EXCEPT !.pc = "draw"]
    /\ UNCHANGED <<master, ruleset, plane>>

\* run: for i, plane in enumerate(self.cam.planes): if plane.dirty: ...; the
\* bare except restores the terminal and raises again
RunDraw ==
    /\ Running /\ last.loop # "start_console" /\ last.pc = "draw"
    /\ IF last.loop = "run_ndarray"
       THEN /\ last' = [last EXCEPT !.pc = "raised", !.exc = "AttributeError", !.at = "draw"]
            /\ plane' = plane
       ELSE IF plane.dirty
       THEN /\ plane' = [plane EXCEPT !.dirty = FALSE]
            /\ last' = [last EXCEPT !.pc = "sleep", !.drawn = @ + 1]
       ELSE /\ plane' = plane
            /\ last' = [last EXCEPT !.pc = "sleep"]
    /\ UNCHANGED <<master, ruleset>>

\* curses.doupdate(); time.sleep(clock / 1000); the call of tick and its
\* first line, tmp = np.copy(self.master)
RunSleep ==
    /\ Running /\ last.pc = "sleep" /\ last.ticks < MaxTicks
    /\ last' = [last EXCEPT !.pc = "tick", !.tmp = master, !.i = 0]
    /\ UNCHANGED <<master, ruleset, plane>>

\* one turn of the loop of tick: tmp.flat[i] = rules.applyTo(i, self.master, *args)
TickCell ==
    /\ Running /\ last.pc = "tick" /\ last.i < Len(master.flat)
    /\ LET r == ApplyTo(ruleset, last.i, master, RunTickArgs)
       IN  last' = IF r.ok
                   THEN [last EXCEPT !.tmp.flat[last.i + 1] = r.val, !.i = @ + 1]
                   ELSE [last EXCEPT !.pc = "raised", !.exc = r.exc, !.at = "tick"]
    /\ UNCHANGED <<master, ruleset, plane>>

\* the last line of tick, self.master[:] = tmp, and the return to the loop
TickEnd ==
    /\ Running /\ last.pc = "tick" /\ last.i = Len(master.flat)
    /\ master' = last.tmp
    /\ last' = [last EXCEPT !.pc = "loop", !.ticks = @ + 1]
    /\ UNCHANGED <<ruleset, plane>>

\* Ctrl-C: KeyboardInterrupt is raised between any two steps of the loop
Interrupt ==
    /\ Running
    /\ last' = [last EXCEPT !.pc = "raised", !.exc = "KeyboardInterrupt", !.at = last.pc]
    /\ UNCHANGED <<master, ruleset, plane>>

RunNext ==
    \/ ConsolePrint \/ RunGetch \/ RunDraw \/ RunSleep
    \/ TickCell \/ TickEnd \/ Interrupt

RunSpec == RunInit /\ [][RunNext]_vars

\* C28: cancelling the run loop never cuts a tick short: when the loop ends on
\* a request to stop, it was not inside a tick that had computed some cells
\* and not yet written the grid.
C28_CancelOnlyAtTickBoundary ==
    (last.op = "run" /\ last.pc = "raised" /\ last.exc = "KeyboardInterrupt") =>
        ~(last.at = "tick" /\ last.i > 0)

\* C30: a tick marks the plane it ticked as dirty, and the run loop has drawn
\* the planes once for every finished tick before the next tick starts.
C30_TickedPlaneIsRedrawn ==
    (last.op = "run" /\ last.loop = "run_Plane") =>
        /\ (last.pc = "loop" /\ last.ticks > 0) => plane.dirty
        /\ last.pc = "tick" => last.drawn >= last.ticks

====
